---- MODULE Spec2Model ----
(***************************************************************************)
(* Axis range resolution of a veusz page (widgets/page.py).                *)
(*                                                                         *)
(* Page.draw builds an _AxisDependHelper, lets it search the widget tree   *)
(* for axes and axis users (findPlotters), and then walks the dependency   *)
(* pairs in topological order to collect the range of every axis from its  *)
(* plotters and write it to the axis (findAxisRanges / processDepends).    *)
(*                                                                         *)
(* Python values are modelled as follows:                                  *)
(*   - a widget is a string; a node (widget, depname) is a 2-tuple, the    *)
(*     depname None of an axis node is the string "None";                  *)
(*   - a range list [lo, hi] is a 2-tuple of integers, 1e99 is BIG;        *)
(*   - the argument None of setAutoRange is the empty tuple;               *)
(*   - list objects live in the variable lists, indexed by an identity,    *)
(*     so that two names for one list (aliasing) can be told from a copy.  *)
(***************************************************************************)
EXTENDS Integers, Sequences, FiniteSets, TLC

\* ------------------------------------------------------------------ bounds

\* number of draws of the page that are followed
MaxPasses == 2
\* number of affectsAxisRange / requiresAxisRange entries in the whole tree
MaxEdges == 4
\* the same number, for the pages drawn into a shared paint helper
MaxPaintEdges == 1
\* number of functions in the onmodified list of a setting
MaxCallbacks == 2

\* ------------------------------------------------------------ the widgets

Root == "page"
Axes == {"X", "Y"}
Plotters == {"P1", "P2"}
Widgets == {Root, "graph"} \cup Axes \cup Plotters

AxNames == {"x", "y"}
DepNames == {"sx", "sy", "both"}

\* Python's None, as the second component of an axis node
None == "None"
\* the argument None of setAutoRange: an automatic range
Auto == << >>

\* stands for 1e99
BIG == 1000000

\* identities of the list objects: the module-level defaultrange and the
\* list made for each axis by list(defaultrange)
DefaultId == "defaultrange"
ListIds == {DefaultId} \cup Axes

Min(a, b) == IF a <= b THEN a ELSE b
Max(a, b) == IF a >= b THEN a ELSE b

\* ------------------------------------------------------------- the inputs

\* widget trees: the children of every widget, in order
Trees ==
    { [w \in Widgets |->
          IF w = Root THEN <<"graph">>
          ELSE IF w = "graph" THEN <<"X", "Y", "P1", "P2">>
          ELSE << >>],
      [w \in Widgets |->
          IF w = Root THEN <<"Y", "graph">>
          ELSE IF w = "graph" THEN <<"P2", "X", "P1">>
          ELSE << >>] }

\* a widget tree in which no axis has the name "y": there is no widget Y
MissingTrees ==
    { [w \in Widgets |->
          IF w = Root THEN <<"graph">>
          ELSE IF w = "graph" THEN <<"P1", "X", "P2">>
          ELSE << >>] }

\* a widget tree without axes: neither name of a plotter is that of an axis
BareTrees ==
    { [w \in Widgets |->
          IF w = Root THEN <<"graph">>
          ELSE IF w = "graph" THEN <<"P1", "P2">>
          ELSE << >>] }

\* the 'hide' setting of an axis user: no such setting, False, True
HideStates == {"nosetting", "False", "True"}

\* the 'hide' settings of the plotters
HideChoices ==
    { hd \in [Plotters -> HideStates] :
         hd["P1"] # "nosetting" /\ hd["P2"] # "False" }

\* the data a plotter would plot, as [min, max]
DataChoices ==
    { [p \in Plotters |-> IF p = "P1" THEN <<0, 10>> ELSE <<5, 20>>] }

\* further data: P1 has a least value only (its getRange lowers the minimum
\* and leaves the maximum as it is), P2 has no data at all
DataChoicesWide ==
    DataChoices \cup
    { [p \in Plotters |-> IF p = "P1" THEN <<0, -BIG>> ELSE <<BIG, -BIG>>] }

\* every declaration a plotter can make: kind, plotter, axis name, depname
DeclList ==
    << [kind |-> "affects",  w |-> "P1", axname |-> "x", depname |-> "sx"],
       [kind |-> "affects",  w |-> "P1", axname |-> "x", depname |-> "sy"],
       [kind |-> "affects",  w |-> "P1", axname |-> "y", depname |-> "sx"],
       [kind |-> "affects",  w |-> "P1", axname |-> "y", depname |-> "sy"],
       [kind |-> "requires", w |-> "P1", axname |-> "x", depname |-> "sx"],
       [kind |-> "requires", w |-> "P1", axname |-> "x", depname |-> "sy"],
       [kind |-> "requires", w |-> "P1", axname |-> "y", depname |-> "sx"],
       [kind |-> "requires", w |-> "P1", axname |-> "y", depname |-> "sy"],
       [kind |-> "affects",  w |-> "P2", axname |-> "x", depname |-> "both"],
       [kind |-> "affects",  w |-> "P2", axname |-> "y", depname |-> "both"],
       [kind |-> "requires", w |-> "P2", axname |-> "x", depname |-> "both"],
       [kind |-> "requires", w |-> "P2", axname |-> "y", depname |-> "both"] >>

\* what lookupAxis can return: an axis widget, or None
AxisRefs == Axes \cup {None}

\* the nodes (widget, depname) of the dependency graph; (None, None) is the
\* node made for a name that lookupAxis does not resolve
AxisNodes == {<<a, None>> : a \in AxisRefs}
PlotterNodes == {<<DeclList[k].w, DeclList[k].depname>> : k \in 1..Len(DeclList)}
Nodes == AxisNodes \cup PlotterNodes

RECURSIVE PickDecls(_, _, _, _)
\* the entries of DeclList from index k on that are chosen in S and are of
\* the given kind and widget, in the order of DeclList
PickDecls(S, kind, w, k) ==
    IF k > Len(DeclList) THEN << >>
    ELSE LET d == DeclList[k]
             rest == PickDecls(S, kind, w, k + 1)
         IN IF k \in S /\ d.kind = kind /\ d.w = w
            THEN <<d>> \o rest
            ELSE rest

\* ------------------------------------------------------------- the state

VARIABLES
    \* the widget tree (unchanged by a pass)
    children,           \* widget -> sequence of child widgets
    hide,               \* plotter -> its 'hide' setting
    affects,            \* plotter -> what affectsAxisRange() returns
    requires,           \* plotter -> what requiresAxisRange() returns
    plotdata,           \* plotter -> the range of the data it plots
    autorange,          \* axis -> the range last given to setAutoRange
    \* list objects
    lists,              \* identity -> [lo, hi]
    \* the _AxisDependHelper of the current draw
    deps,               \* node -> sequence of nodes it depends on
    axes,               \* sequence of axis widgets
    axis_plotter_map,   \* axis -> sequence of plotters
    pairs,              \* sequence of <<producer node, consumer node>>
    ranges,             \* pending axis -> identity of its range list
    \* position in findAxisRanges
    pc,
    sequence,           \* the value of utils.topsort(self.pairs)
    i,                  \* index of dep in sequence
    j,                  \* index of (widgetd, widgetd_dep) in deps[dep]
    todo,               \* axes the loop over ranges.iteritems() has yet to visit
    \* history
    pass,               \* number of the current draw
    calls,              \* the getRange and setAutoRange calls of this draw
    prev,               \* sequence, ranges and calls of the draw before
    \* the paint helper the page is drawn into
    painthelper,        \* its axisplottermap and its plotteraxismap
    \* a setting (setting/setting.py)
    setting,            \* its class, val, default and onmodified list
    called,             \* the onmodified calls of the last operation on it
    outcome             \* the last operation on it and the exception raised

vars == <<children, hide, affects, requires, plotdata, autorange, lists,
          deps, axes, axis_plotter_map, pairs, ranges,
          pc, sequence, i, j, todo, pass, calls, prev,
          painthelper, setting, called, outcome>>

tree == <<children, hide, affects, requires, plotdata>>
helper == <<deps, axes, axis_plotter_map, pairs, ranges>>
settingvars == <<setting, called, outcome>>

\* ------------------------------------------- the interface of the widgets

\* hasattr(widget, 'isaxis')
hasisaxis(widget) == widget \in Axes

\* isinstance(widget, axisuser.AxisUser)
isAxisUser(widget) == widget \in Plotters

\* widget.getAxesNames(): the names of the axes the widget is plotted on
getAxesNames(widget) == <<"x", "y">>

\* widget w is the child of a widget (the root and the graph alone have
\* children)
InTree(w) ==
    \E parent \in {Root, "graph"} :
        \E k \in 1..Len(children[parent]) : children[parent][k] = w

\* the axis widgets below the root
TreeAxes == {a \in Axes : InTree(a)}

\* widget.lookupAxis(axname): the axis widget of that name in the tree, None
\* when the tree has no axis of that name
lookupAxis(widget, axname) ==
    LET axis == IF axname = "x" THEN "X" ELSE "Y"
    IN IF InTree(axis) THEN axis ELSE None

\* widgetd.getRange(axis, depname, axrange): the list axrange after the call,
\* widened to hold the data of the widget
getRange(data, axrange) ==
    <<Min(axrange[1], data[1]), Max(axrange[2], data[2])>>

\* --------------------------------------------- recursivePlotterSearch

\* a slip in the order of the affects pair: the axis before the widget part
AffectsPairSwapped(widget, axis, depname) ==
    << <<axis, None>>, <<widget, depname>> >>

\* the pair made of an entry (axname, depname) of affectsAxisRange():
\* the widget part is evaluated before the axis
AffectsPair(widget, axis, depname) == << <<widget, depname>>, <<axis, None>> >>

\* a slip in the order of the requires pair: the widget part before the axis
RequiresPairSwapped(widget, axis, depname) ==
    << <<widget, depname>>, <<axis, None>> >>

\* the pair made of an entry (depname, axname) of requiresAxisRange():
\* the axis is evaluated before the widget part
RequiresPair(widget, axis, depname) == << <<axis, None>>, <<widget, depname>> >>

\* a slip in the order of the two loops: the requirements come first
WidgetPairsRequiresFirst(widget, aff, req) ==
    [k \in 1..Len(req) |->
        RequiresPair(widget, lookupAxis(widget, req[k].axname), req[k].depname)]
    \o
    [k \in 1..Len(aff) |->
        AffectsPair(widget, lookupAxis(widget, aff[k].axname), aff[k].depname)]

\* the pairs a widget appends to self.pairs, in order
WidgetPairs(widget, aff, req) ==
    [k \in 1..Len(aff) |->
        AffectsPair(widget, lookupAxis(widget, aff[k].axname), aff[k].depname)]
    \o
    [k \in 1..Len(req) |->
        RequiresPair(widget, lookupAxis(widget, req[k].axname), req[k].depname)]

\* a slip in the direction of the map: self.deps[p2].append(p1), a node is
\* mapped to the nodes that depend on it
AppendDepsForward(olddeps, newpairs) ==
    [n \in Nodes |->
        LET FromN(pr) == pr[1] = n
            mine == SelectSeq(newpairs, FromN)
        IN olddeps[n] \o [k \in 1..Len(mine) |-> mine[k][2]]]

\* self.deps[p1].append(p2) for every pair (p2, p1) of newpairs, in order
AppendDeps(olddeps, newpairs) ==
    [n \in Nodes |->
        LET ToN(pr) == pr[2] = n
            mine == SelectSeq(newpairs, ToN)
        IN olddeps[n] \o [k \in 1..Len(mine) |-> mine[k][1]]]

\* a slip: only the axes of a shown widget get the widget appended
AppendPlotterShown(oldmap, widget) ==
    [a \in AxisRefs |->
        LET names == getAxesNames(widget)
            IsA(axname) == lookupAxis(widget, axname) = a /\ hide[widget] # "True"
            mine == SelectSeq(names, IsA)
        IN oldmap[a] \o [k \in 1..Len(mine) |-> widget]]

\* self.axis_plotter_map[axis].append(widget) for every name of the widget
AppendPlotter(oldmap, widget) ==
    [a \in AxisRefs |->
        LET names == getAxesNames(widget)
            IsA(axname) == lookupAxis(widget, axname) = a
            mine == SelectSeq(names, IsA)
        IN oldmap[a] \o [k \in 1..Len(mine) |-> widget]]

\* what recursivePlotterSearch does for the widget itself, before it
\* descends into the children; h is the helper (deps, axes, map, pairs)
SearchWidget(h, widget, aff, req) ==
    LET newpairs == IF isAxisUser(widget)
                    THEN WidgetPairs(widget, aff[widget], req[widget])
                    ELSE << >>
    IN [deps |-> AppendDeps(h.deps, newpairs),
        axes |-> IF hasisaxis(widget) THEN Append(h.axes, widget) ELSE h.axes,
        axis_plotter_map |-> IF isAxisUser(widget)
                             THEN AppendPlotter(h.axis_plotter_map, widget)
                             ELSE h.axis_plotter_map,
        pairs |-> h.pairs \o newpairs]

RECURSIVE recursivePlotterSearch(_, _, _, _, _)
RECURSIVE SearchChildren(_, _, _, _, _, _)

\* the helper after the search of the subtree of widget
recursivePlotterSearch(h, widget, ch, aff, req) ==
    SearchChildren(SearchWidget(h, widget, aff, req), ch[widget], 1, ch, aff, req)

\* a slip in the loop over the children: it ends after the first child
SearchChildrenFirstOnly(h, cs, k, ch, aff, req) ==
    IF k > Len(cs) THEN h
    ELSE recursivePlotterSearch(h, cs[k], ch, aff, req)

\* for c in widget.children: self.recursivePlotterSearch(c), from child k on
SearchChildren(h, cs, k, ch, aff, req) ==
    IF k > Len(cs) THEN h
    ELSE SearchChildren(recursivePlotterSearch(h, cs[k], ch, aff, req),
                        cs, k + 1, ch, aff, req)

\* the empty collections of a new helper
EmptyDeps == [n \in Nodes |-> << >>]
EmptyMap == [a \in AxisRefs |-> << >>]
NoRanges == [a \in {} |-> DefaultId]

\* a slip in Page.draw: the helper of the draw before is used again
KeptHelper ==
    [deps |-> deps, axes |-> axes,
     axis_plotter_map |-> axis_plotter_map, pairs |-> pairs]

\* the helper made by _AxisDependHelper.__init__
NewHelper ==
    [deps |-> EmptyDeps, axes |-> << >>,
     axis_plotter_map |-> EmptyMap, pairs |-> << >>]

\* ---------------------------------------------------- utils.topsort

RECURSIVE Discovered(_, _, _)
\* the nodes of the pairs in the order in which they first occur
Discovered(prs, k, found) ==
    IF k > Len(prs) THEN found
    ELSE LET InFound(n) == \E m \in 1..Len(found) : found[m] = n
             f1 == IF InFound(prs[k][1]) THEN found ELSE Append(found, prs[k][1])
             In1(n) == \E m \in 1..Len(f1) : f1[m] = n
             f2 == IF In1(prs[k][2]) THEN f1 ELSE Append(f1, prs[k][2])
         IN Discovered(prs, k + 1, f2)

\* number of pairs that point to node n
InDegree(prs, n) == Cardinality({k \in 1..Len(prs) : prs[k][2] = n})

RECURSIVE Release(_, _, _, _, _)
\* node h has been put out: lower the in-degree of its successors, pair by
\* pair from pair k on, and queue those that reach zero
Release(prs, h, k, indeg, queue) ==
    IF k > Len(prs) THEN [indeg |-> indeg, queue |-> queue]
    ELSE IF prs[k][1] = h
         THEN LET t == prs[k][2]
                  nd == [indeg EXCEPT ![t] = @ - 1]
              IN Release(prs, h, k + 1, nd,
                         IF nd[t] = 0 THEN Append(queue, t) ELSE queue)
         ELSE Release(prs, h, k + 1, indeg, queue)

RECURSIVE Kahn(_, _, _, _)
\* the nodes put out so far, followed by those still reachable from the queue
Kahn(prs, indeg, queue, out) ==
    IF queue = << >> THEN out
    ELSE LET r == Release(prs, Head(queue), 1, indeg, Tail(queue))
         IN Kahn(prs, r.indeg, r.queue, Append(out, Head(queue)))

\* utils.topological_sort(pairs): the ordered nodes and the nodes left over
\* with a nonzero in-degree
topological_sort(prs) ==
    LET found == Discovered(prs, 1, << >>)
        indeg == [n \in Nodes |-> InDegree(prs, n)]
        Ready(n) == indeg[n] = 0
        ordered == Kahn(prs, indeg, SelectSeq(found, Ready), << >>)
        Left(n) == \A m \in 1..Len(ordered) : ordered[m] # n
    IN [ordered |-> ordered, cyclic |-> SelectSeq(found, Left)]

\* utils.topsort(pairs): the evaluation sequence, the ordered nodes followed
\* by the left over ones in the order of their discovery
topsort(prs) ==
    LET r == topological_sort(prs) IN r.ordered \o r.cyclic

\* ------------------------------------------------------- processDepends

\* a slip in _isokuser: the 'hide' setting is not looked at
isokuserAny(widget, hd) == isAxisUser(widget)

\* _isokuser(widget): an axis user that is not hidden
isokuser(widget, hd) ==
    isAxisUser(widget) /\ (hd[widget] = "nosetting" \/ hd[widget] # "True")

\* _isokaxis(widget): an axis whose range is still pending
isokaxis(widget, rngs) == hasisaxis(widget) /\ widget \in DOMAIN rngs

\* a slip in findPlotters: defaultrange itself instead of a copy of it
NewRangeListShared(a) == DefaultId

\* the identity of the list made for axis a by list(defaultrange)
NewRangeList(a) == a

\* self.ranges = dict([(a, list(defaultrange)) for a in self.axes])
InitRanges(axs) ==
    [a \in {axs[k] : k \in 1..Len(axs)} |-> NewRangeList(a)]

\* the list objects once the lists of InitRanges hold a copy of defaultrange
InitLists(ls, rngs) ==
    [id \in ListIds |->
        IF id # DefaultId /\ (\E a \in DOMAIN rngs : rngs[a] = id)
        THEN ls[DefaultId] ELSE ls[id]]

\* a slip in the getRange call: a new copy of defaultrange is handed over
\* and takes the place of the list of the axis
CallGetRangeFresh(ls, id, data) ==
    [ls EXCEPT ![id] = getRange(data, ls[DefaultId])]

\* the list objects after widgetd.getRange(widget, widgetd_dep, axrange),
\* where id is the identity of axrange
CallGetRange(ls, id, data) == [ls EXCEPT ![id] = getRange(data, ls[id])]

\* a slip in the finalization: the untouched list is not turned into None
ResolvedRangeRaw(axrange, default) == axrange

\* a slip in the comparison: only the maximum is compared with the sentinel
ResolvedRangeMaxOnly(axrange, default) ==
    IF axrange[2] = default[2] THEN Auto ELSE axrange

\* if axrange == defaultrange: axrange = None
ResolvedRange(axrange, default) == IF axrange = default THEN Auto ELSE axrange

\* a slip in the finalization: the axis stays in self.ranges
DelRangeKept(rngs, a) == rngs

\* del self.ranges[widgetd]
DelRange(rngs, a) == [b \in DOMAIN rngs \ {a} |-> rngs[b]]

RECURSIVE NextItem(_, _, _, _)
\* the position of the next (dep, widgetd) the two loops come to, from
\* position (m, n) on; m is beyond the sequence when there is none
NextItem(seq, dps, m, n) ==
    IF m > Len(seq) THEN <<m, 1>>
    ELSE IF n <= Len(dps[seq[m]]) THEN <<m, n>>
    ELSE NextItem(seq, dps, m + 1, 1)

\* where findAxisRanges goes on once the walk is over
AfterWalk(rngs) == IF DOMAIN rngs = {} THEN "done" ELSE "remaining"

GetRangeCall(widgetd, widgetd_dep, axis, val) ==
    [op |-> "getRange", widget |-> widgetd, dep |-> widgetd_dep,
     axis |-> axis, val |-> val, phase |-> "walk"]

SetAutoRangeCall(axis, val, phase) ==
    [op |-> "setAutoRange", widget |-> axis, dep |-> None,
     axis |-> axis, val |-> val, phase |-> phase]

\* the calls made during the walk of processDepends
WalkCalls(log) == LET InWalk(c) == c.phase = "walk" IN SelectSeq(log, InWalk)

\* ---------------------------------------------- settings (setting.py)

\* Python values: the type, the number of a bool, int or float, and the text
\* of a str
PyInt(n) == [type |-> "int", num |-> n, text |-> ""]
PyFloat(n) == [type |-> "float", num |-> n, text |-> ""]
PyBool(b) == [type |-> "bool", num |-> IF b THEN 1 ELSE 0, text |-> ""]
PyStr(t) == [type |-> "str", num |-> 0, text |-> t]
PyNone == [type |-> "NoneType", num |-> 0, text |-> ""]

\* the texts passed to a setting
Texts == {"auto", "Auto", " AUTO", "1pt", "big"}

\* the values passed to a setting: 1, 2, 2.0, True, None and the texts
Values ==
    {PyInt(1), PyInt(2), PyFloat(2), PyBool(TRUE), PyNone}
        \cup {PyStr(t) : t \in Texts}

\* a == b in Python: bools, ints and floats compare as numbers, texts as
\* texts, None equals None alone
PyEq(a, b) ==
    LET Numbers == {"bool", "int", "float"}
    IN IF a.type \in Numbers /\ b.type \in Numbers THEN a.num = b.num
       ELSE IF a.type = "str" /\ b.type = "str" THEN a.text = b.text
       ELSE a.type = "NoneType" /\ b.type = "NoneType"

\* text.strip() and text.lower(), on the texts above
strip(text) == IF text = " AUTO" THEN "AUTO" ELSE text
lower(text) ==
    IF text \in {"Auto", "AUTO"} THEN "auto"
    ELSE IF text = " AUTO" THEN " auto"
    ELSE text

\* the classes of settings
Kinds == {"Setting", "Str", "Bool", "Int", "Float", "FloatOrAuto",
          "IntOrAuto", "Distance", "Choice"}

\* the vallist of the Choice setting
vallist == <<PyStr("big"), PyStr("Auto")>>

\* the functions registered with setOnModified
Callbacks == {"f", "g"}

\* what a call returns or raises
Returned(val) == [exc |-> "none", val |-> val]
Raised(exc) == [exc |-> exc, val |-> PyNone]

\* Distance.isDist: one of the regular expressions matches dist.strip()
isDist(dist) == strip(dist) \in {"1pt"}

\* convertTo of each class
convertTo(kind, val) ==
    CASE kind = "Setting" -> Returned(val)
      [] kind = "Str" ->
            IF val.type = "str" THEN Returned(val) ELSE Raised("InvalidType")
      [] kind = "Bool" ->
            IF val.type \in {"bool", "int"}
            THEN Returned(PyBool(val.num # 0)) ELSE Raised("InvalidType")
      [] kind = "Int" ->
            IF val.type = "int" THEN Returned(val) ELSE Raised("InvalidType")
      [] kind = "Float" ->
            IF val.type \in {"float", "int"}
            THEN Returned(PyFloat(val.num)) ELSE Raised("InvalidType")
      [] kind = "FloatOrAuto" ->
            IF val.type \in {"int", "float"} THEN Returned(PyFloat(val.num))
            ELSE IF val.type = "str" /\ lower(strip(val.text)) = "auto"
            THEN Returned(PyNone)
            ELSE Raised("InvalidType")
      [] kind = "IntOrAuto" ->
            IF val.type = "int" THEN Returned(val)
            ELSE IF val.type = "str" /\ lower(strip(val.text)) = "auto"
            THEN Returned(PyNone)
            ELSE Raised("InvalidType")
      [] kind = "Distance" ->
            \* dist.strip() of a value that is not a text
            IF val.type # "str" THEN Raised("AttributeError")
            ELSE IF isDist(val.text) THEN Returned(val)
            ELSE Raised("InvalidType")
      [] kind = "Choice" ->
            IF \E k \in 1..Len(vallist) : PyEq(val, vallist[k])
            THEN Returned(val) ELSE Raised("InvalidType")

\* convertFrom of each class
convertFrom(kind, val) ==
    IF kind \in {"FloatOrAuto", "IntOrAuto"} /\ PyEq(val, PyNone)
    THEN PyStr("Auto")
    ELSE val

\* no setting has been constructed
NoSetting ==
    [kind |-> "none", val |-> PyNone, default |-> PyNone, onmodified |-> << >>]
\* no operation has been called
NoOutcome == [op |-> "none", fn |-> "", exc |-> "none"]

\* Setting.get
get(s) == convertFrom(s.kind, s.val)

\* Setting.isDefault
isDefault(s) == PyEq(get(s), s.default)

\* for i in self.onmodified: i(True); each call is recorded with the value
\* that is stored when it is made
CallModified(s) ==
    [k \in 1..Len(s.onmodified) |->
        [fn |-> s.onmodified[k], arg |-> TRUE, val |-> s.val]]

\* a slip in set: the functions are called before the value is stored
SetResultCallsFirst(s, val) ==
    LET c == convertTo(s.kind, val)
    IN IF c.exc = "none"
       THEN [setting |-> [s EXCEPT !.val = c.val],
             called |-> CallModified(s), exc |-> "none"]
       ELSE [setting |-> s, called |-> << >>, exc |-> c.exc]

\* Setting.set on the setting s: the setting after it, the calls it makes
\* and the exception it raises
SetResult(s, val) ==
    LET c == convertTo(s.kind, val)
        stored == [s EXCEPT !.val = c.val]
    IN IF c.exc = "none"
       THEN [setting |-> stored, called |-> CallModified(stored),
             exc |-> "none"]
       ELSE [setting |-> s, called |-> << >>, exc |-> c.exc]

\* Setting.setSilent on the setting s
SetSilentResult(s, val) ==
    LET c == convertTo(s.kind, val)
    IN IF c.exc = "none"
       THEN [setting |-> [s EXCEPT !.val = c.val], called |-> << >>,
             exc |-> "none"]
       ELSE [setting |-> s, called |-> << >>, exc |-> c.exc]

\* self.onmodified.index(fn): the least index of fn
index(list, fn) ==
    CHOOSE k \in 1..Len(list) :
        list[k] = fn /\ \A m \in 1..(k - 1) : list[m] # fn

\* del list[k]
del(list, k) == SubSeq(list, 1, k - 1) \o SubSeq(list, k + 1, Len(list))

\* ------------------------------------------------------- the paint helper

\* the widgets of a second page that is drawn into the same paint helper
OtherAxes == {"X2", "Y2"}
OtherPlotters == {"Q"}

\* the keys the two maps of the paint helper can have
PaintAxes == AxisRefs \cup OtherAxes
PaintPlotters == Plotters \cup OtherPlotters

\* an axis -> plotters map without keys: an absent key is the empty list
NoPlotters == [a \in PaintAxes |-> << >>]
\* a list of axes, as the number of times each axis is in it (the order is
\* that of the iteration over a dictionary); no axis: an absent key
NoAxes == [a \in PaintAxes |-> 0]

\* the paint helper before anything is drawn into it
NewPaintHelper ==
    [axisplottermap |-> NoPlotters,
     plotteraxismap |-> [p \in PaintPlotters |-> NoAxes]]

\* number of times x is in the list s
Occurrences(s, x) == Cardinality({k \in 1..Len(s) : s[k] = x})

\* painthelper.axisplottermap.update(axisdependhelper.axis_plotter_map)
UpdateAxisPlotterMap(old, new) ==
    [a \in PaintAxes |-> IF new[a] # << >> THEN new[a] ELSE old[a]]

\* pamap: for axis, plotters in painthelper.axisplottermap.iteritems():
\*            for plot in plotters: pamap[plot].append(axis)
ReverseMapping(axmap) ==
    [p \in PaintPlotters |-> [a \in PaintAxes |-> Occurrences(axmap[a], p)]]

\* painthelper.plotteraxismap.update(pamap)
UpdatePlotterAxisMap(old, pamap) ==
    [p \in PaintPlotters |-> IF pamap[p] # NoAxes THEN pamap[p] ELSE old[p]]

\* the end of Page.draw's first part: the maps of the helper are stored
StoreMappings(ph, map) ==
    LET axmap == UpdateAxisPlotterMap(ph.axisplottermap, map)
    IN [axisplottermap |-> axmap,
        plotteraxismap |-> UpdatePlotterAxisMap(ph.plotteraxismap,
                                                ReverseMapping(axmap))]

\* the axis_plotter_map of the helper, keys of other pages absent
HelperMap(map) ==
    [a \in PaintAxes |-> IF a \in AxisRefs THEN map[a] ELSE << >>]

\* the helper maps of the other page: both names of its plotter are those of
\* axes, one is, neither is
OtherPageMaps ==
    { [a \in PaintAxes |-> IF a \in {"X2", "Y2"} THEN <<"Q">> ELSE << >>],
      [a \in PaintAxes |-> IF a \in {"X2", None} THEN <<"Q">> ELSE << >>],
      [a \in PaintAxes |-> IF a = None THEN <<"Q", "Q">> ELSE << >>] }

\* ---------------------------------------------------------------- actions

\* findAxisRanges goes to newpc: when it returns, Page.draw stores the maps
\* in the paint helper; when it raises or has more to do, nothing is stored
DrawGoesOn(newpc) ==
    painthelper' = IF newpc = "done"
                   THEN StoreMappings(painthelper, HelperMap(axis_plotter_map))
                   ELSE painthelper

\* the state before the first draw, but for the tree and the data
InitRest ==
    /\ hide \in HideChoices
    /\ \E S \in {T \in SUBSET (1..Len(DeclList)) : Cardinality(T) <= MaxEdges} :
          /\ affects = [p \in Plotters |-> PickDecls(S, "affects", p, 1)]
          /\ requires = [p \in Plotters |-> PickDecls(S, "requires", p, 1)]
    /\ autorange = [a \in Axes |-> Auto]
    /\ lists = [id \in ListIds |-> <<BIG, -BIG>>]
    /\ deps = EmptyDeps
    /\ axes = << >>
    /\ axis_plotter_map = EmptyMap
    /\ pairs = << >>
    /\ ranges = NoRanges
    /\ pc = "idle"
    /\ sequence = << >>
    /\ i = 1
    /\ j = 1
    /\ todo = {}
    /\ pass = 0
    /\ calls = << >>
    /\ prev = [seq |-> << >>, auto |-> [a \in Axes |-> Auto],
               log |-> << >>, pc |-> "idle"]
    /\ painthelper = NewPaintHelper
    /\ setting = NoSetting
    /\ called = << >>
    /\ outcome = NoOutcome

\* pages on which every axis name is that of an axis
Init ==
    /\ children \in Trees
    /\ plotdata \in DataChoices
    /\ InitRest

\* pages with or without an axis for the name "y", plotters with or without
\* data
InitAnyPage ==
    /\ children \in {t \in Trees : t[Root] = <<"Y", "graph">>} \cup MissingTrees
    /\ plotdata \in DataChoicesWide
    /\ InitRest

\* Page.draw: a new helper is made; the one of the draw before is dropped
Draw ==
    /\ pc \in {"idle", "done", "raised"}
    /\ pass < MaxPasses
    /\ pass' = pass + 1
    /\ prev' = IF pass = 0 THEN prev
               ELSE [seq |-> sequence, auto |-> autorange,
                     log |-> WalkCalls(calls), pc |-> pc]
    /\ deps' = NewHelper.deps
    /\ axes' = NewHelper.axes
    /\ axis_plotter_map' = NewHelper.axis_plotter_map
    /\ pairs' = NewHelper.pairs
    /\ ranges' = NoRanges
    /\ lists' = [id \in ListIds |-> lists[DefaultId]]
    /\ sequence' = << >>
    /\ i' = 1
    /\ j' = 1
    /\ todo' = {}
    /\ calls' = << >>
    /\ pc' = "findPlotters"
    /\ UNCHANGED <<tree, autorange, painthelper, settingvars>>

\* a slip in findPlotters: every axis found is reset to an automatic range
\* during the build
findPlottersResetting ==
    /\ pc = "findPlotters"
    /\ LET h == recursivePlotterSearch(
                    [deps |-> deps, axes |-> axes,
                     axis_plotter_map |-> axis_plotter_map, pairs |-> pairs],
                    Root, children, affects, requires)
       IN /\ deps' = h.deps
          /\ axes' = h.axes
          /\ axis_plotter_map' = h.axis_plotter_map
          /\ pairs' = h.pairs
          /\ ranges' = InitRanges(h.axes)
          /\ lists' = InitLists(lists, InitRanges(h.axes))
          /\ autorange' = [a \in Axes |->
                              IF a \in {h.axes[k] : k \in 1..Len(h.axes)}
                              THEN Auto ELSE autorange[a]]
          /\ calls' = calls \o [k \in 1..Len(h.axes) |->
                                   SetAutoRangeCall(h.axes[k], Auto, "walk")]
    /\ pc' = "findAxisRanges"
    /\ UNCHANGED <<tree, sequence, i, j, todo, pass, prev,
                   painthelper, settingvars>>

\* _AxisDependHelper.findPlotters
findPlotters ==
    /\ pc = "findPlotters"
    /\ LET h == recursivePlotterSearch(
                    [deps |-> deps, axes |-> axes,
                     axis_plotter_map |-> axis_plotter_map, pairs |-> pairs],
                    Root, children, affects, requires)
       IN /\ deps' = h.deps
          /\ axes' = h.axes
          /\ axis_plotter_map' = h.axis_plotter_map
          /\ pairs' = h.pairs
          /\ ranges' = InitRanges(h.axes)
          /\ lists' = InitLists(lists, InitRanges(h.axes))
    /\ pc' = "findAxisRanges"
    /\ UNCHANGED <<tree, autorange, sequence, i, j, todo, pass, calls, prev,
                   painthelper, settingvars>>

\* findAxisRanges enters processDepends, which evaluates utils.topsort and
\* comes to the first dependency of the first node
findAxisRanges ==
    /\ pc = "findAxisRanges"
    /\ sequence' = topsort(pairs)
    /\ LET nx == NextItem(sequence', deps, 1, 1)
       IN /\ i' = nx[1]
          /\ j' = nx[2]
          /\ pc' = IF nx[1] > Len(sequence') THEN AfterWalk(ranges) ELSE "walk"
    /\ todo' = DOMAIN ranges
    /\ DrawGoesOn(pc')
    /\ UNCHANGED <<tree, autorange, lists, helper, pass, calls, prev,
                   settingvars>>

\* the node the outer loop is at, and the dependency the inner loop is at
dep == sequence[i]
widget == dep[1]
widgetd == deps[dep][j][1]
widgetd_dep == deps[dep][j][2]

\* the loops move on to the next dependency
MoveOn(rngs) ==
    LET nx == NextItem(sequence, deps, i, j + 1)
    IN /\ i' = nx[1]
       /\ j' = nx[2]
       /\ pc' = IF nx[1] > Len(sequence) THEN AfterWalk(rngs) ELSE "walk"
       /\ todo' = DOMAIN rngs
       /\ DrawGoesOn(pc')

\* processDepends, an ok user of an axis with a pending range: getRange.
\* No widget is an axis user and an axis at once, so that the second test of
\* the loop body, _isokaxis(widgetd), fails after the call.
WalkGetRange ==
    /\ pc = "walk"
    /\ isokuser(widgetd, hide)
    /\ widget \in DOMAIN ranges
    /\ lists' = CallGetRange(lists, ranges[widget], plotdata[widgetd])
    /\ calls' = Append(calls, GetRangeCall(widgetd, widgetd_dep, widget,
                                           lists'[ranges[widget]]))
    /\ MoveOn(ranges)
    /\ UNCHANGED <<tree, autorange, helper, sequence, pass, prev, settingvars>>

\* processDepends, an ok user of a widget that has no entry in self.ranges:
\* self.ranges[widget] raises KeyError, which ends the draw
WalkKeyError ==
    /\ pc = "walk"
    /\ isokuser(widgetd, hide)
    /\ widget \notin DOMAIN ranges
    /\ pc' = "raised"
    /\ UNCHANGED <<tree, autorange, lists, helper, sequence, i, j, todo,
                   pass, calls, prev, painthelper, settingvars>>

\* processDepends, an axis with a pending range: setAutoRange and del
WalkSetAutoRange ==
    /\ pc = "walk"
    /\ ~ isokuser(widgetd, hide)
    /\ isokaxis(widgetd, ranges)
    /\ LET axrange == ResolvedRange(lists[ranges[widgetd]], lists[DefaultId])
       IN /\ autorange' = [autorange EXCEPT ![widgetd] = axrange]
          /\ calls' = Append(calls, SetAutoRangeCall(widgetd, axrange, "walk"))
    /\ ranges' = DelRange(ranges, widgetd)
    /\ MoveOn(ranges')
    /\ UNCHANGED <<tree, lists, deps, axes, axis_plotter_map, pairs,
                   sequence, pass, prev, settingvars>>

\* processDepends, neither an ok user nor a pending axis: nothing is done
WalkSkip ==
    /\ pc = "walk"
    /\ ~ isokuser(widgetd, hide)
    /\ ~ isokaxis(widgetd, ranges)
    /\ MoveOn(ranges)
    /\ UNCHANGED <<tree, autorange, lists, helper, sequence, pass, calls, prev,
                   settingvars>>

\* findAxisRanges, the loop over self.ranges.iteritems(), whose order is
\* that of the dictionary
SetRemaining ==
    /\ pc = "remaining"
    /\ \E axis \in todo :
          LET axrange == ResolvedRange(lists[ranges[axis]], lists[DefaultId])
          IN /\ autorange' = [autorange EXCEPT ![axis] = axrange]
             /\ calls' = Append(calls, SetAutoRangeCall(axis, axrange, "post"))
             /\ todo' = todo \ {axis}
             /\ pc' = IF todo' = {} THEN "done" ELSE "remaining"
    /\ DrawGoesOn(pc')
    /\ UNCHANGED <<tree, lists, helper, sequence, i, j, pass, prev,
                   settingvars>>

Next ==
    \/ Draw
    \/ findPlotters
    \/ findAxisRanges
    \/ WalkGetRange
    \/ WalkKeyError
    \/ WalkSetAutoRange
    \/ WalkSkip
    \/ SetRemaining

Spec == Init /\ [][Next]_vars

\* the first draw of a page
FirstDraw == pass = 0 /\ Draw

NextFirstDraw ==
    \/ FirstDraw
    \/ findPlotters
    \/ findAxisRanges
    \/ WalkGetRange
    \/ WalkKeyError
    \/ WalkSetAutoRange
    \/ WalkSkip
    \/ SetRemaining

\* one draw of any of the pages
SpecAnyPage == InitAnyPage /\ [][NextFirstDraw]_vars

\* Page.draw of another page with the same paint helper, as one step: its
\* helper is built, its ranges are found and its maps are stored
DrawOtherPage ==
    /\ pc \in {"idle", "done", "raised"}
    /\ \E map \in OtherPageMaps :
          painthelper' = StoreMappings(painthelper, map)
    /\ UNCHANGED <<tree, autorange, lists, helper, pc, sequence, i, j, todo,
                   pass, calls, prev, settingvars>>

\* pages with both axes and pages without axes, with few declarations
InitPaint ==
    /\ children \in {t \in Trees : t[Root] = <<"graph">>} \cup BareTrees
    /\ plotdata \in DataChoices
    /\ InitRest
    /\ Len(affects["P1"]) + Len(affects["P2"])
          + Len(requires["P1"]) + Len(requires["P2"]) <= MaxPaintEdges

NextPaint ==
    \/ Draw
    \/ findPlotters
    \/ findAxisRanges
    \/ WalkGetRange
    \/ WalkKeyError
    \/ WalkSetAutoRange
    \/ WalkSkip
    \/ SetRemaining
    \/ DrawOtherPage

\* draws of the page and of another page into one paint helper
SpecPaint == InitPaint /\ [][NextPaint]_vars

\* ------------------------------------------------ actions on the setting

\* the page, its helper and the paint helper
pagevars == <<tree, autorange, lists, helper, pc, sequence, i, j, todo,
              pass, calls, prev, painthelper>>

\* a call of a method of the setting ends
Returns(res, op, fn) ==
    /\ setting' = res.setting
    /\ called' = res.called
    /\ outcome' = [op |-> op, fn |-> fn, exc |-> res.exc]
    /\ UNCHANGED pagevars

\* Setting.__init__ (for Choice, after vallist is kept): default and
\* onmodified are assigned, then set is called; when it raises there is no
\* setting
SettingInit ==
    /\ setting = NoSetting
    /\ \E kind \in Kinds, val \in Values :
          LET new == [kind |-> kind, val |-> PyNone, default |-> val,
                      onmodified |-> << >>]
              res == SetResult(new, val)
          IN Returns(IF res.exc = "none" THEN res
                     ELSE [res EXCEPT !.setting = NoSetting],
                     "__init__", "")

\* Setting.set
set ==
    /\ setting # NoSetting
    /\ \E val \in Values : Returns(SetResult(setting, val), "set", "")

\* Setting.setSilent
setSilent ==
    /\ setting # NoSetting
    /\ \E val \in Values :
          Returns(SetSilentResult(setting, val), "setSilent", "")

\* Setting.setOnModified
setOnModified ==
    /\ setting # NoSetting
    /\ Len(setting.onmodified) < MaxCallbacks
    /\ \E fn \in Callbacks :
          Returns([setting |-> [setting EXCEPT
                                   !.onmodified = Append(@, fn)],
                   called |-> << >>, exc |-> "none"],
                  "setOnModified", fn)

\* Setting.removeOnModified: list.index raises ValueError when fn is not in
\* the list
removeOnModified ==
    /\ setting # NoSetting
    /\ \E fn \in Callbacks :
          Returns(IF \E k \in 1..Len(setting.onmodified) :
                        setting.onmodified[k] = fn
                  THEN [setting |-> [setting EXCEPT
                                        !.onmodified = del(@, index(@, fn))],
                        called |-> << >>, exc |-> "none"]
                  ELSE [setting |-> setting, called |-> << >>,
                        exc |-> "ValueError"],
                  "removeOnModified", fn)

\* Setting.resetToDefault
resetToDefault ==
    /\ setting # NoSetting
    /\ Returns(SetResult(setting, setting.default), "resetToDefault", "")

\* Setting.newDefault
newDefault ==
    /\ setting # NoSetting
    /\ \E val \in Values :
          Returns(SetResult([setting EXCEPT !.default = val], val),
                  "newDefault", "")

\* one page that is not drawn, and no setting yet
InitSetting ==
    /\ children \in BareTrees
    /\ plotdata \in DataChoices
    /\ InitRest
    /\ hide = [p \in Plotters |-> "True"]
    /\ \A p \in Plotters : affects[p] = << >> /\ requires[p] = << >>

NextSetting ==
    \/ SettingInit
    \/ set
    \/ setSilent
    \/ setOnModified
    \/ removeOnModified
    \/ resetToDefault
    \/ newDefault

\* a setting of any class and the calls of its methods
SpecSetting == InitSetting /\ [][NextSetting]_vars

\* ------------------------------------------------- notions of the claims

\* the draw has come to its end, by return or by an exception
Finished == pc \in {"done", "raised"}

\* utils.topsort has been evaluated in this draw
Sorted == pc \in {"walk", "remaining", "done", "raised"}

\* number of setAutoRange calls on axis a in this draw
SetCount(a) ==
    Cardinality({k \in 1..Len(calls) :
                    calls[k].op = "setAutoRange" /\ calls[k].axis = a})

\* the widget tree declares that part d of plotter p contributes to axis a
Contributes(p, d, a) ==
    \E k \in 1..Len(affects[p]) :
        affects[p][k].depname = d /\ lookupAxis(p, affects[p][k].axname) = a

\* the widget tree declares that part d of plotter p needs the range of a
Requires(p, d, a) ==
    \E k \in 1..Len(requires[p]) :
        requires[p][k].depname = d /\ lookupAxis(p, requires[p][k].axname) = a

\* the plotter is shown: it has no 'hide' setting or the setting is False
Visible(p) == hide[p] \in {"nosetting", "False"}

\* the shown plotters that contribute to axis a
VisibleContributors(a) ==
    {p \in Plotters : Visible(p) /\ \E d \in DepNames : Contributes(p, d, a)}

\* the hidden plotters that contribute to axis a
HiddenContributors(a) ==
    {p \in Plotters : ~ Visible(p) /\ \E d \in DepNames : Contributes(p, d, a)}

\* the smallest minimum and the largest maximum of the data of plotters S
DataRange(S) ==
    << CHOOSE lo \in {plotdata[p][1] : p \in S} :
           \A q \in S : lo <= plotdata[q][1],
       CHOOSE hi \in {plotdata[p][2] : p \in S} :
           \A q \in S : hi >= plotdata[q][2] >>

\* the edges (producer, consumer) the widget tree declares
DeclEdges ==
    { e \in Nodes \X Nodes :
        \/ e[1] \in PlotterNodes /\ e[2] \in AxisNodes
           /\ Contributes(e[1][1], e[1][2], e[2][1])
        \/ e[1] \in AxisNodes /\ e[2] \in PlotterNodes
           /\ Requires(e[2][1], e[2][2], e[1][1]) }

NoEdges == \A p \in Plotters : affects[p] = << >> /\ requires[p] = << >>

\* the nodes the widget tree declares to depend directly on node n
Consumers(n) ==
    IF n \in AxisNodes
    THEN {m \in PlotterNodes : Requires(m[1], m[2], n[1])}
    ELSE {<<a, None>> : a \in {b \in AxisRefs : Contributes(n[1], n[2], b)}}

RECURSIVE Downstream(_)
\* the nodes of S and all nodes that depend on them, directly or not
Downstream(S) ==
    LET T == S \cup UNION {Consumers(m) : m \in S}
    IN IF T = S THEN S ELSE Downstream(T)

\* no node of the declared graph lies on a cycle: every edge joins a plotter
\* part and an axis node, so that every cycle passes through a plotter part
Acyclic == \A n \in PlotterNodes : n \notin Downstream(Consumers(n))

\* the place of node n in the evaluation sequence, 0 when it is not in it
Pos(n) ==
    IF \E k \in 1..Len(sequence) : sequence[k] = n
    THEN CHOOSE k \in 1..Len(sequence) : sequence[k] = n
    ELSE 0

\* ------------------------------------------------------------- the claims

\* C1: for every dependency graph, cyclic ones included, a full resolution
\* pass ends without raising an error, and at its end every axis has been
\* given a resolved range.
C1_CompletesWithoutError ==
    /\ pc # "raised"
    /\ pc = "done" => \A a \in TreeAxes : SetCount(a) >= 1

\* C2: in an acyclic dependency graph, whenever getRange is invoked on a
\* widget part (P, d), every axis that (P, d) requires has had its range
\* written by setAutoRange earlier in the same pass.
C2_RequiredAxesSetBeforeGetRange ==
    Acyclic =>
        \A k \in 1..Len(calls) :
            calls[k].op = "getRange" =>
                \A a \in Axes :
                    Requires(calls[k].widget, calls[k].dep, a) =>
                        \E m \in 1..(k - 1) :
                            calls[m].op = "setAutoRange" /\ calls[m].axis = a

C2_Witness ==
    /\ Acyclic
    /\ \E k \in 1..Len(calls) :
          /\ calls[k].op = "getRange"
          /\ \E a \in Axes : Requires(calls[k].widget, calls[k].dep, a)

\* C3: for an acyclic graph the evaluation sequence is a topological order:
\* every node occurs once, the producer of every declared edge comes before
\* its consumer, so an axis required by a plotter part comes before it.
C3_SequenceIsTopologicalOrder ==
    (Sorted /\ Acyclic) =>
        /\ \A k, m \in 1..Len(sequence) : sequence[k] = sequence[m] => k = m
        /\ \A e \in DeclEdges :
              Pos(e[1]) > 0 /\ Pos(e[2]) > 0 /\ Pos(e[1]) < Pos(e[2])

C3_Witness ==
    /\ Sorted /\ Acyclic
    /\ \E p \in Plotters, d \in DepNames, a, b \in Axes :
          /\ Requires(p, d, a) /\ Contributes(p, d, b)
          /\ Pos(<<a, None>>) < Pos(<<p, d>>)
          /\ Pos(<<p, d>>) < Pos(<<b, None>>)

\* C4: getRange is never invoked with an axis whose range has already been
\* written in this pass: no getRange call on an axis follows a setAutoRange
\* call on that axis.
C4_NoGetRangeAfterFinalize ==
    \A k \in 1..Len(calls) :
        calls[k].op = "getRange" =>
            \A m \in 1..(k - 1) :
                ~ (calls[m].op = "setAutoRange" /\ calls[m].axis = calls[k].axis)

C4_Witness ==
    \E k, m \in 1..Len(calls) :
        /\ k < m
        /\ calls[k].op = "getRange"
        /\ calls[m].op = "setAutoRange"
        /\ calls[m].axis = calls[k].axis
        /\ calls[m].phase = "walk"

\* C5: in one pass setAutoRange is called exactly once on each axis.
C5_SetAutoRangeExactlyOnce ==
    Finished => \A a \in TreeAxes : SetCount(a) = 1

Walked(n) == Sorted /\ Pos(n) > 0 /\ Pos(n) < i

\* C7: getRange is never invoked on a hidden axis user, so an axis without a
\* shown contributor is only ever resolved to automatic; the edges of a
\* hidden widget are walked all the same: once the walk has dealt with a part
\* of a hidden widget, the axes it requires are finalized, and once it has
\* dealt with an axis, every shown contributor of the axis has been asked.
C7_HiddenUsersDoNotContribute ==
    /\ \A k \in 1..Len(calls) :
          /\ calls[k].op = "getRange" => Visible(calls[k].widget)
          /\ (calls[k].op = "setAutoRange"
              /\ VisibleContributors(calls[k].axis) = {}) =>
                  calls[k].val = Auto /\ autorange[calls[k].axis] = Auto
    /\ \A p \in Plotters, d \in DepNames, a \in Axes :
          (~ Visible(p) /\ Requires(p, d, a) /\ Walked(<<p, d>>)) =>
              /\ a \notin DOMAIN ranges
              /\ SetCount(a) = 1
    /\ \A p \in Plotters, d \in DepNames, a \in Axes :
          (Visible(p) /\ Contributes(p, d, a) /\ Walked(<<a, None>>)) =>
              \E k \in 1..Len(calls) :
                  /\ calls[k].op = "getRange"
                  /\ calls[k].widget = p
                  /\ calls[k].dep = d
                  /\ calls[k].axis = a

C7_Witness ==
    /\ pc = "done"
    /\ \E p, q \in Plotters, a, b \in Axes :
          /\ ~ Visible(p) /\ Visible(q)
          /\ p \in HiddenContributors(a) /\ q \in VisibleContributors(a)
          /\ \E d \in DepNames : Requires(p, d, b) /\ Walked(<<p, d>>)
          /\ autorange[a] = plotdata[q]
          /\ \E k \in 1..Len(calls) :
                calls[k] = SetAutoRangeCall(b, autorange[b], "walk")

\* C8: when the axis users declare no contribution and no requirement, every
\* axis of the tree is resolved to automatic: setAutoRange(None) is called
\* on it, once.
C8_NoEdgesAllAutomatic ==
    NoEdges =>
        /\ pc # "raised"
        /\ pc = "done" =>
              \A a \in TreeAxes :
                  /\ autorange[a] = Auto
                  /\ SetCount(a) = 1
                  /\ \E k \in 1..Len(calls) :
                        calls[k] = SetAutoRangeCall(a, Auto, "post")

C8_Witness ==
    /\ NoEdges
    /\ pc = "done"
    /\ TreeAxes = {"X", "Y"}
    /\ Len(calls) = 2

\* C9: the accumulator of an axis is monotonic during a pass: from one step
\* to the next its minimum never increases and its maximum never decreases,
\* as long as the axis is pending.
C9_AccumulatorMonotonic ==
    [][ \A a \in Axes :
          (a \in DOMAIN ranges /\ a \in DOMAIN ranges') =>
              /\ lists'[ranges'[a]][1] <= lists[ranges[a]][1]
              /\ lists'[ranges'[a]][2] >= lists[ranges[a]][2] ]_vars

C9_Witness ==
    \E k, m \in 1..Len(calls) :
        /\ k < m
        /\ calls[k].op = "getRange"
        /\ calls[m].op = "getRange"
        /\ calls[k].axis = calls[m].axis
        /\ calls[k].val # calls[m].val

\* C10: a second resolution of an unchanged tree uses the same evaluation
\* sequence, makes the same calls during the walk, ends the same way and
\* leaves the same resolved range on every axis as the first.
C10_SecondPassIdentical ==
    (pass >= 2 /\ Finished) =>
        /\ sequence = prev.seq
        /\ WalkCalls(calls) = prev.log
        /\ autorange = prev.auto
        /\ pc = prev.pc

C10_Witness ==
    /\ pass = 2
    /\ pc = "done"
    /\ Len(sequence) >= 3
    /\ \E a \in Axes : autorange[a] # Auto

\* ------------------------------------------ notions of the scheduler claims

\* the set of the elements of a sequence
SeqSet(s) == {s[k] : k \in 1..Len(s)}

\* the nodes that occur in an edge the widget tree declares
GraphNodes == {n \in Nodes : \E e \in DeclEdges : e[1] = n \/ e[2] = n}

\* node n lies on a cycle of the declared graph
OnCycle(n) == n \in Downstream(Consumers(n))

\* the nodes that lie on a cycle
CycleNodes == {n \in Nodes : OnCycle(n)}

\* the index of the first pair in which node n occurs, 0 when in none
FirstPair(n) ==
    IF \E k \in 1..Len(pairs) : pairs[k][1] = n \/ pairs[k][2] = n
    THEN CHOOSE k \in 1..Len(pairs) :
            /\ pairs[k][1] = n \/ pairs[k][2] = n
            /\ \A m \in 1..(k - 1) : pairs[m][1] # n /\ pairs[m][2] # n
    ELSE 0

\* node n is discovered before node m: in an earlier pair, or as the first
\* node of the same pair
DiscoveredBefore(n, m) ==
    \/ FirstPair(n) < FirstPair(m)
    \/ /\ FirstPair(n) = FirstPair(m)
       /\ n # m
       /\ pairs[FirstPair(n)][1] = n

\* every node of the graph is exactly once in the sequence, and the nodes of
\* the set S come after all others, in the order of their discovery
EmitsAllWithLast(S) ==
    /\ SeqSet(sequence) = GraphNodes
    /\ Len(sequence) = Cardinality(GraphNodes)
    /\ \A n \in S, m \in GraphNodes \ S : Pos(m) < Pos(n)
    /\ \A n, m \in S : DiscoveredBefore(n, m) => Pos(n) < Pos(m)

Built == pc \notin {"idle", "findPlotters"}

\* plotter p declares, in affectsAxisRange or requiresAxisRange, an axis name
\* that lookupAxis does not resolve
Unresolved(p) ==
    \/ \E k \in 1..Len(affects[p]) : lookupAxis(p, affects[p][k].axname) = None
    \/ \E k \in 1..Len(requires[p]) : lookupAxis(p, requires[p][k].axname) = None

\* a part of widget w is an end of the pair pr
InPair(w, pr) == pr[1][1] = w \/ pr[2][1] = w

\* C12: when a plotter declares an axis name that lookupAxis does not
\* resolve (in a graph without cycles), the pairs of that plotter are
\* dropped, the draw still returns, and every axis of the tree is given its
\* range once in that draw.
C12_UnresolvedNameIsIsolated ==
    (Acyclic /\ \E p \in Plotters : Unresolved(p)) =>
        /\ Built => \A p \in Plotters :
               Unresolved(p) => \A k \in 1..Len(pairs) : ~ InPair(p, pairs[k])
        /\ Finished => pc = "done" /\ \A a \in TreeAxes : SetCount(a) = 1

RECURSIVE PreOrder(_)
RECURSIVE PreOrderFrom(_, _)

\* the widgets of the subtree of w: w first, then the subtrees of its
\* children from left to right
PreOrder(w) == <<w>> \o PreOrderFrom(children[w], 1)

\* the subtrees of the widgets cs[k], cs[k+1], ..., one after the other
PreOrderFrom(cs, k) ==
    IF k > Len(cs) THEN << >>
    ELSE PreOrder(cs[k]) \o PreOrderFrom(cs, k + 1)

\* the edges the declarations of plotter p stand for: one edge from the
\* plotter part to the axis for every range contribution, then one edge
\* from the axis to the plotter part for every requirement
DeclaredEdges(p) ==
    [k \in 1..Len(affects[p]) |->
        << <<p, affects[p][k].depname>>,
           <<lookupAxis(p, affects[p][k].axname), None>> >>]
    \o
    [k \in 1..Len(requires[p]) |->
        << <<lookupAxis(p, requires[p][k].axname), None>>,
           <<p, requires[p][k].depname>> >>]

RECURSIVE DeclaredEdgesFrom(_, _)
\* the edges of the plotters among ws[k], ws[k+1], ..., in that order
DeclaredEdgesFrom(ws, k) ==
    IF k > Len(ws) THEN << >>
    ELSE (IF ws[k] \in Plotters THEN DeclaredEdges(ws[k]) ELSE << >>)
         \o DeclaredEdgesFrom(ws, k + 1)

\* C13: the edge list of the built helper holds one edge (plotter part,
\* axis) for every range contribution and one edge (axis, plotter part) for
\* every requirement of the plotters of the tree, and nothing else, in the
\* pre-order of the plotters in the tree.
C13_EdgesAreTheDeclarationsInPreOrder ==
    Built => pairs = DeclaredEdgesFrom(PreOrder(Root), 1)

\* a built helper for a tree in which the later plotter of the pre-order
\* contributes and the earlier one contributes and requires
C13_Witness ==
    /\ Built
    /\ \E k, m \in 1..Len(PreOrder(Root)) :
          /\ k < m
          /\ PreOrder(Root)[k] \in Plotters
          /\ PreOrder(Root)[m] \in Plotters
          /\ affects[PreOrder(Root)[k]] # << >>
          /\ requires[PreOrder(Root)[k]] # << >>
          /\ affects[PreOrder(Root)[m]] # << >>
    /\ Len(pairs) >= 3

\* axis a is an end of one of the pairs
InSomePair(a) == \E k \in 1..Len(pairs) : InPair(a, pairs[k])

\* number of entries of self.axes that are the widget a
AxesCount(a) == Cardinality({k \in 1..Len(axes) : axes[k] = a})

\* C14: after the build every axis widget below the root is exactly once
\* in self.axes (and nothing else is), whether or not it is in an edge; and
\* at the end of the build every axis that is in an edge or in the
\* axis-to-plotter map has one accumulator, a list that holds the sentinel.
C14_AxesListedOnceWithFreshAccumulator ==
    /\ Built =>
          /\ \A a \in TreeAxes : AxesCount(a) = 1
          /\ SeqSet(axes) = TreeAxes
    /\ pc = "findAxisRanges" =>
          \A a \in Axes :
              (InSomePair(a) \/ axis_plotter_map[a] # << >>) =>
                  /\ a \in DOMAIN ranges
                  /\ ranges[a] \in ListIds
                  /\ lists[ranges[a]] = <<BIG, -BIG>>

\* the end of the build of a tree with one axis that is in an edge and one
\* that is in none
C14_Witness ==
    /\ pc = "findAxisRanges"
    /\ \E a, b \in TreeAxes :
          /\ InSomePair(a)
          /\ ~ InSomePair(b)
          /\ axis_plotter_map[b] # << >>
          /\ lists[ranges[b]] = <<BIG, -BIG>>

\* the widgets below the root, the root included
TreeWidgets == SeqSet(PreOrder(Root))

\* C15: from the build to the end of the draw, the axis-to-plotter map
\* lists widget w under axis a exactly when w is an axis user of the tree
\* and one of the names of w.getAxesNames() is resolved by lookupAxis to a,
\* whatever the 'hide' setting and the declarations of w are.
C15_MapListsUsersOfResolvedAxes ==
    Built =>
        \A a \in Axes, w \in Widgets :
            (w \in SeqSet(axis_plotter_map[a]))
            <=> /\ w \in TreeWidgets
                /\ isAxisUser(w)
                /\ \E k \in 1..Len(getAxesNames(w)) :
                      lookupAxis(w, getAxesNames(w)[k]) = a

\* the end of a draw in which a hidden plotter without declarations is
\* listed under an axis, and one of its names is not resolved
C15_Witness ==
    /\ Finished
    /\ \E a \in Axes, w \in Plotters :
          /\ w \in SeqSet(axis_plotter_map[a])
          /\ hide[w] = "True"
          /\ affects[w] = << >>
          /\ requires[w] = << >>
          /\ \E k \in 1..Len(getAxesNames(w)) :
                lookupAxis(w, getAxesNames(w)[k]) = None

\* C16: the build (findPlotters with its recursivePlotterSearch) leaves the
\* widget tree and the ranges of the axes as they are, calls neither
\* getRange nor setAutoRange, and leaves the list defaultrange as it is: it
\* writes to the collections of the helper only.
C16_BuildOnlyFillsHelper ==
    [][ pc = "findPlotters" =>
            /\ tree' = tree
            /\ autorange' = autorange
            /\ calls' = calls
            /\ lists'[DefaultId] = lists[DefaultId] ]_vars

\* the end of the build of the second draw: the helper holds edges and
\* accumulators, an axis still has the range of the first draw, and no call
\* has been made
C16_Witness ==
    /\ pc = "findAxisRanges"
    /\ pass = 2
    /\ pairs # << >>
    /\ DOMAIN ranges # {}
    /\ calls = << >>
    /\ \E a \in Axes : autorange[a] # Auto

\* ------------------------------------------ notions of the walk claims

\* the empty sentinel [1e99, -1e99]
Sentinel == <<BIG, -BIG>>

\* the plotters whose getRange has been called for axis a before call m
AskedBefore(a, m) ==
    {calls[k].widget : k \in {n \in 1..(m - 1) :
                                 calls[n].op = "getRange" /\ calls[n].axis = a}}

\* the sentinel widened by the data of the plotters of S: the least of the
\* minima and the greatest of the maxima, the sentinel's included
Accumulated(S) ==
    LET los == {BIG} \cup {plotdata[p][1] : p \in S}
        his == {-BIG} \cup {plotdata[p][2] : p \in S}
    IN << CHOOSE lo \in los : \A x \in los : lo <= x,
          CHOOSE hi \in his : \A x \in his : hi >= x >>

\* C17: the range written to an axis is automatic exactly when the shown
\* contributors asked for that axis have left its accumulator equal to the
\* sentinel; in every other case, also when only one of the two bounds has
\* changed, it is the accumulated (min, max) pair.
C17_AutomaticIffNeverWidened ==
    \A m \in 1..Len(calls) :
        calls[m].op = "setAutoRange" =>
            LET acc == Accumulated(AskedBefore(calls[m].axis, m))
            IN /\ (calls[m].val = Auto) <=> (acc = Sentinel)
               /\ acc # Sentinel => calls[m].val = acc

\* the end of a draw in which one axis was written with a pair of which
\* only the minimum differs from the sentinel, and another axis, whose only
\* contributor has no data, was written as automatic
C17_Witness ==
    /\ pc = "done"
    /\ \E m, n \in 1..Len(calls) :
          /\ calls[m].op = "setAutoRange"
          /\ calls[m].val = <<0, -BIG>>
          /\ autorange[calls[m].axis] = <<0, -BIG>>
          /\ calls[n].op = "setAutoRange"
          /\ calls[n].val = Auto
          /\ AskedBefore(calls[n].axis, n) # {}

\* the nodes with a declared edge to node n: the nodes n depends on
Predecessors(n) == {m \in Nodes : <<m, n>> \in DeclEdges}

\* the nodes with a declared edge from node n: the nodes that depend on n
Successors(n) == {m \in Nodes : <<n, m>> \in DeclEdges}

\* one step of the walk at node dep, where Processed(dep) are the nodes the
\* walk is to process there: the inner loop runs over exactly these nodes,
\* one after the other from the first to the last; for a shown plotter part
\* getRange is called with the accumulator of dep (or, when dep has none,
\* the draw ends with KeyError); a pending axis is given its range and is
\* no longer pending
WalkStepOver(Processed(_)) ==
    /\ SeqSet(deps[dep]) = Processed(dep)
    /\ Len(deps[dep]) = Cardinality(Processed(dep))
    /\ isokuser(widgetd, hide) =>
          \/ /\ widget \notin DOMAIN ranges
             /\ pc' = "raised"
          \/ /\ widget \in DOMAIN ranges
             /\ Len(calls') = Len(calls) + 1
             /\ calls'[Len(calls')].op = "getRange"
             /\ calls'[Len(calls')].widget = widgetd
             /\ calls'[Len(calls')].dep = widgetd_dep
             /\ calls'[Len(calls')].axis = widget
    /\ isokaxis(widgetd, ranges) =>
          /\ Len(calls') = Len(calls) + 1
          /\ calls'[Len(calls')].op = "setAutoRange"
          /\ calls'[Len(calls')].axis = widgetd
          /\ widgetd \notin DOMAIN ranges'
    /\ (~ isokuser(widgetd, hide) /\ ~ isokaxis(widgetd, ranges)) =>
          calls' = calls
    /\ pc' # "raised" =>
          IF j < Len(deps[dep])
          THEN pc' = "walk" /\ i' = i /\ j' = j + 1
          ELSE pc' # "walk" \/ (i' > i /\ j' = 1)

\* C18 as stated: when the walk is at node n, the nodes it processes are
\* exactly the successors of n (the nodes m with an edge n -> m): a shown
\* plotter part among them has getRange called, a pending axis among them
\* is given its range.
C18_WalkProcessesSuccessors ==
    [][ pc = "walk" => WalkStepOver(Successors) ]_vars

\* C18 amended: when the walk is at node n, the nodes it processes are
\* exactly the nodes n depends on (the nodes m with an edge m -> n): a shown
\* plotter part among them has getRange called with the accumulator of n
\* (KeyError ends the draw when n has none), a pending axis among them is
\* given its range.
C18_WalkProcessesPredecessors ==
    [][ pc = "walk" => WalkStepOver(Predecessors) ]_vars

\* the walk has called getRange and has given an axis its range, and is at
\* the second of the nodes that the node it visits depends on
C18_Witness ==
    /\ pc = "walk"
    /\ j = 2
    /\ Cardinality(Predecessors(dep)) = 2
    /\ Successors(dep) # Predecessors(dep)
    /\ \E k, m \in 1..Len(calls) :
          /\ calls[k].op = "getRange"
          /\ calls[m].op = "setAutoRange"
          /\ calls[m].phase = "walk"

\* the indices of the getRange calls of part d of plotter p for axis a
GetRangeCalls(p, d, a) ==
    {k \in 1..Len(calls) :
        /\ calls[k].op = "getRange"
        /\ calls[k].widget = p
        /\ calls[k].dep = d
        /\ calls[k].axis = a}

\* C19: in a graph without cycles, getRange is called once in a draw for
\* every contribution of a part of a shown plotter to an axis (never more
\* than once, and once when the draw has ended), and when an axis is given
\* its range every such contribution to it has been asked for before.
C19_EachContributionAskedOnceBeforeWrite ==
    Acyclic =>
        /\ \A p \in Plotters, d \in DepNames, a \in Axes :
              (Contributes(p, d, a) /\ Visible(p)) =>
                  /\ Cardinality(GetRangeCalls(p, d, a)) <= 1
                  /\ Finished => Cardinality(GetRangeCalls(p, d, a)) = 1
        /\ \A m \in 1..Len(calls) :
              calls[m].op = "setAutoRange" =>
                  \A p \in Plotters, d \in DepNames :
                      (Contributes(p, d, calls[m].axis) /\ Visible(p)) =>
                          \E k \in GetRangeCalls(p, d, calls[m].axis) : k < m

\* this step is a getRange call of the walk
IsGetRangeStep ==
    /\ Len(calls') = Len(calls) + 1
    /\ calls'[Len(calls')].op = "getRange"

\* C20: every axis has an accumulator of its own: a getRange call for an
\* axis leaves the accumulators of the other pending axes and the list
\* defaultrange as they are; and a draw shares nothing with the draw
\* before: it starts with empty edges, dependency map, axis list and
\* pending ranges, and its accumulators hold the sentinel after the build.
C20_AccumulatorsAndDrawsAreSeparate ==
    [][ /\ IsGetRangeStep =>
              /\ lists'[DefaultId] = lists[DefaultId]
              /\ \A b \in DOMAIN ranges \ {calls'[Len(calls')].axis} :
                    lists'[ranges[b]] = lists[ranges[b]]
        /\ pc' = "findPlotters" =>
              /\ pairs' = << >>
              /\ deps' = EmptyDeps
              /\ axes' = << >>
              /\ axis_plotter_map' = EmptyMap
              /\ ranges' = NoRanges
        /\ (pc = "findPlotters" /\ pc' = "findAxisRanges") =>
              /\ lists'[DefaultId] = Sentinel
              /\ \A a \in DOMAIN ranges' : lists'[ranges'[a]] = Sentinel
      ]_vars

\* in the second draw, after a first draw with getRange calls: one axis has
\* been widened by getRange while the other, still pending, holds the
\* sentinel
C20_Witness ==
    /\ pass = 2
    /\ prev.log # << >>
    /\ pc = "walk"
    /\ \E a, b \in DOMAIN ranges :
          /\ a # b
          /\ lists[ranges[a]] # Sentinel
          /\ lists[ranges[b]] = Sentinel
          /\ \E k \in 1..Len(calls) :
                calls[k].op = "getRange" /\ calls[k].axis = a

\* C21: in the paint helper, plotter p is listed under axis a in
\* axisplottermap exactly when a is listed under p in plotteraxismap, at
\* every moment, whichever pages were drawn into it and how often.
C21_MapsAreMutualInverses ==
    \A a \in PaintAxes, p \in PaintPlotters :
        p \in SeqSet(painthelper.axisplottermap[a])
            <=> painthelper.plotteraxismap[p][a] > 0

\* C22: a call of set that does not return raises InvalidType, leaves the
\* stored value as it was and calls none of the onmodified functions.
C22_RejectedSetRaisesInvalidType ==
    [][(outcome'.op = "set" /\ outcome'.exc # "none")
          => /\ outcome'.exc = "InvalidType"
             /\ setting'.val = setting.val
             /\ called' = << >>]_vars

\* the step is a call of the method op that returns
ReturnsFrom(op) == outcome'.op = op /\ outcome'.exc = "none"

\* a set that returns calls the functions of the onmodified list, one call
\* for each entry and in the order of the list, with the argument True and
\* with the new value stored
SetCallsEveryRegistration ==
    ReturnsFrom("set") =>
        /\ Len(called') = Len(setting.onmodified)
        /\ \A k \in 1..Len(called') :
              /\ called'[k].fn = setting.onmodified[k]
              /\ called'[k].arg = TRUE
              /\ called'[k].val = setting'.val
        /\ \E val \in Values :
              convertTo(setting.kind, val) = Returned(setting'.val)

\* a setSilent that returns stores the value and calls no function
SetSilentCallsNone ==
    ReturnsFrom("setSilent") =>
        /\ called' = << >>
        /\ setting'.onmodified = setting.onmodified
        /\ \E val \in Values :
              convertTo(setting.kind, val) = Returned(setting'.val)

\* C23 as stated: a set that returns calls every registered function once
\* per registration, in registration order, with True and after the value is
\* stored; setSilent stores and calls none; a function removed with
\* removeOnModified is no longer in the list, so that later sets do not
\* call it.
C23_RemovedIsNeverCalledAgain ==
    [][/\ SetCallsEveryRegistration
       /\ SetSilentCallsNone
       /\ ReturnsFrom("removeOnModified") =>
             \A k \in 1..Len(setting'.onmodified) :
                 setting'.onmodified[k] # outcome'.fn]_vars

\* C23, amended: as above for set and setSilent; removeOnModified takes the
\* earliest registration of the function out of the list and leaves the
\* others, so that later sets call it once for each registration that is
\* left.
C23_RemovedLosesEarliestRegistration ==
    [][/\ SetCallsEveryRegistration
       /\ SetSilentCallsNone
       /\ ReturnsFrom("removeOnModified") =>
             \E k \in 1..Len(setting.onmodified) :
                 /\ setting.onmodified[k] = outcome'.fn
                 /\ \A m \in 1..(k - 1) : setting.onmodified[m] # outcome'.fn
                 /\ Len(setting'.onmodified) = Len(setting.onmodified) - 1
                 /\ \A m \in 1..Len(setting'.onmodified) :
                       setting'.onmodified[m] =
                           setting.onmodified[IF m < k THEN m ELSE m + 1]]_vars

\* a set has called two different functions in the order of registration,
\* with a value stored that is not the default
C23_Witness ==
    /\ outcome = [op |-> "set", fn |-> "", exc |-> "none"]
    /\ setting.onmodified = <<"g", "f">>
    /\ Len(called) = 2
    /\ called[1].fn = "g"
    /\ called[2].fn = "f"
    /\ called[1].val = setting.val
    /\ ~ PyEq(setting.val, setting.default)

\* C24: right after a construction, a resetToDefault or a newDefault that
\* returns, isDefault() is true, for every class of setting and every
\* value, the text 'auto' in any case for FloatOrAuto and IntOrAuto
\* included.
C24_DefaultRightAfterInitResetAndNewDefault ==
    (/\ outcome.op \in {"__init__", "resetToDefault", "newDefault"}
     /\ outcome.exc = "none")
        => isDefault(setting)
====
